---- MODULE Spec2Model ----
(***************************************************************************)
(* Model of partner_cloud: the grant-access workflow                       *)
(* (workflows/grant_access.py) and its three activities                    *)
(*   jira.get_access_for_current_sprint   (activities/jira.py)             *)
(*   ldap.resolve_users                   (activities/ldap.py)             *)
(*   launchpad.add_users_to_group         (activities/launchpad.py)        *)
(* The specifications share the variables:                                 *)
(*   SpecExtract  the extractor activity alone, over a pool of tickets;    *)
(*   SpecResolve  the resolver activity alone, over a pool of user sets;   *)
(*   SpecGrant    the group-change activity alone, over a pool of batches; *)
(*   SpecRun      one run of the workflow;                                 *)
(*   SpecLive     one run that is not cancelled, every enabled step of the *)
(*                workflow and of its activities eventually taken;         *)
(*   SpecRoute    one run from the arrival of the extractor's result;      *)
(*   SpecMap      a resource map through AccessResult and back;            *)
(*   Spec         the workflow, run MaxRuns times in a row.                *)
(***************************************************************************)
EXTENDS Integers, Sequences, FiniteSets, TLC

VARIABLES
    conf,           \* CONF: the cloud sections (conf/cloud.py, config.py)
    cloud,          \* the cloud argument of the run / of the activity
    issues,         \* what the tracker returns for the sprint search
    prereqs,        \* the tracker's other tickets, by key: status, project
    access_result,  \* the outcome of get_access_for_current_sprint
    ldap,           \* the directory: a sequence of person entries
    lp,             \* Launchpad: people by id, with their memberships
    pc,             \* the workflow's position in run()
    run,            \* which run of the workflow this is
    resource_map,   \* run()'s resource_map
    resolveIdx,     \* how many entries of resource_map are resolved
    tasks,          \* the fanned-out add_users_to_group invocations
    result,         \* what run() returned
    addCalls,       \* every lp_group.addMember invocation so far
    prevSuccess,    \* the (group, user) successes the previous run recorded
    users_arg,      \* the users of the last resolve_users invocation
    resolved,       \* the outcome of the last resolve_users invocation
    ldapOps,        \* the directory client operations of that invocation
    trackerFailAt   \* which tracker client call of the extraction fails (0: none)

vars == <<conf, cloud, issues, prereqs, access_result, ldap, lp, pc, run,
          resource_map, resolveIdx, tasks, result, addCalls, prevSuccess,
          users_arg, resolved, ldapOps, trackerFailAt>>

\* Python's None, for the optional string fields.
None == "None"

\* A null JiraUser reference (an unassigned ticket's assignee field).
NoneUser == [isNone |-> TRUE]

\* The elements of a sequence.
Range(s) == {s[i] : i \in DOMAIN s}

-----------------------------------------------------------------------------
(* objects.py, resources/                                                  *)

User(name, email, launchpad_id) ==
    [name |-> name, email |-> email, launchpad_id |-> launchpad_id]

InfraNode(name, ip_address) ==
    [kind |-> "InfraNode", name |-> name, ip_address |-> ip_address]

OpenStackProject(name, cloudName) ==
    [kind |-> "OpenStackProject", name |-> name, project_id |-> None,
     cloud |-> cloudName]

-----------------------------------------------------------------------------
(* Bounds and input pools                                                  *)

\* The sprint search returns at most this many tickets.
MaxTickets == 2

JiraProject == "PACLOUD"

SprintKeys == <<"PACLOUD-42", "PACLOUD-41", "PACLOUD-43">>

\* str.lower() on the issue keys of the model.
lower(s) ==
    CASE s = "PACLOUD-41" -> "pacloud-41"
      [] s = "PACLOUD-42" -> "pacloud-42"
      [] s = "PACLOUD-43" -> "pacloud-43"
      [] OTHER -> s

Ann == [displayName |-> "ann", emailAddress |-> "ann@example.com"]
Bob == [displayName |-> "bob", emailAddress |-> None]
Cat == [displayName |-> "cat", emailAddress |-> "cat@example.com"]

Link(typeName, inwardKey) == [type |-> typeName, inwardIssue |-> inwardKey]

\* issue.fields.issuelinks: absent, or a list of links.  "PACLOUD-7" is a
\* ticket of the configured project, "INFRA-7" one of another project.
LinkPool ==
    { [hasLinks |-> FALSE, issuelinks |-> <<>>],
      [hasLinks |-> TRUE, issuelinks |-> <<Link("Finish-to-Start", "PACLOUD-7")>>],
      [hasLinks |-> TRUE, issuelinks |-> <<Link("Finish-to-Start (FS)", "INFRA-7")>>],
      [hasLinks |-> TRUE, issuelinks |-> <<Link("Relates", "PACLOUD-7"),
                                           Link("Finish-to-Start", None)>>] }

LayerPool ==
    { <<"Infrastructure">>, <<"Platform">>,
      <<"Application", "Infrastructure", "Edge", "Platform">> }

\* (collaborators, assignee)
PeoplePool ==
    { [collaborators |-> <<Ann>>, assignee |-> Bob],
      [collaborators |-> <<Ann, Cat>>, assignee |-> NoneUser],
      [collaborators |-> <<>>, assignee |-> Cat] }

StatusPool == {"In Progress", "Done"}

Ticket(key, status, layers, people, links) ==
    [key |-> key, status |-> status, layers |-> layers,
     collaborators |-> people.collaborators, assignee |-> people.assignee,
     hasLinks |-> links.hasLinks, issuelinks |-> links.issuelinks]

\* The tickets under one key.  A Done ticket is here with one kind of links
\* only, a prerequisite in the project.
TicketPool(key) ==
    { t \in { Ticket(key, s, l, p, k) :
                s \in StatusPool, l \in LayerPool, p \in PeoplePool, k \in LinkPool } :
        t.status = "Done" =>
            t.issuelinks = <<Link("Finish-to-Start", "PACLOUD-7")>> }

RECURSIVE TicketLists(_)
TicketLists(n) ==
    IF n = 0 THEN {<<>>}
    ELSE LET shorter == TicketLists(n - 1)
         IN shorter \cup
            { Append(s, t) : s \in {x \in shorter : Len(x) = n - 1},
                             t \in TicketPool(SprintKeys[n]) }

PrereqPool ==
    [ {"PACLOUD-7", "INFRA-7"} -> {"In Progress", "Done"} ]

ProjectOf(key) == IF key = "INFRA-7" THEN "INFRA" ELSE "PACLOUD"

Section(name, infra_group, user_group, infra_node) ==
    [name |-> name, infra_group |-> infra_group, user_group |-> user_group,
     infra_node |-> infra_node]

\* CONF.clouds and the section registered for each of its names.
Conf(clouds, sections) == [clouds |-> clouds, sections |-> sections]

ConfPlain ==
    Conf(<<"PC5a">>,
         [c \in {"PC5a"} |-> Section("PC5a", "pc5a-infra", "pc5a-users", "10.0.0.5")])

\* The section is named differently from the cloud's friendly name.
ConfFriendly ==
    Conf(<<"pc5a">>,
         [c \in {"pc5a"} |-> Section("PC5a", "pc5a-infra", "pc5a-users", "10.0.0.5")])

-----------------------------------------------------------------------------
(* activities/jira.py                                                      *)

\* An activity that has not been invoked.
Idle == [status |-> "idle"]

Ok(v) == [status |-> "ok", value |-> v]
Raised(e) == [status |-> "raised", error |-> e]

\* CONF.get(section): the options of a registered section.
ConfGet(section) ==
    IF section \in DOMAIN conf.sections THEN Ok(conf.sections[section])
    ELSE Raised("NoSuchOptError")

is_issue_completed_always(issue) == FALSE

is_issue_completed(issue) == issue.status = "Done"

\* str.startswith, over the link type names of the model.
LinkTypeSuffixes == {"", " (FS)"}
startswith(s, prefix) == \E x \in LinkTypeSuffixes : s = prefix \o x

\* get_issues_by_keys: the search is restricted to the configured project.
get_issues_by_keys(keys) ==
    SelectSeq(keys, LAMBDA k : k \in DOMAIN prereqs /\ ProjectOf(k) = JiraProject)

\* The keys collected from the links (jira.py:116-128).
prerequisite_issues(issue) ==
    LET wanted(link) == /\ startswith(link.type, "Finish-to-Start")
                        /\ link.inwardIssue # None
        kept == SelectSeq(issue.issuelinks, wanted)
    IN [i \in DOMAIN kept |-> kept[i].inwardIssue]

\* The error of the key search is caught and the ticket taken as unblocked.
get_pending_prerequisite_issues_swallow(issue, searchFails) ==
    IF ~issue.hasLinks THEN Ok([isNone |-> TRUE, keys |-> <<>>])
    ELSE IF prerequisite_issues(issue) = <<>> THEN Ok([isNone |-> TRUE, keys |-> <<>>])
    ELSE IF searchFails THEN Ok([isNone |-> TRUE, keys |-> <<>>])
    ELSE Ok([isNone |-> FALSE,
             keys |-> SelectSeq(get_issues_by_keys(prerequisite_issues(issue)),
                                LAMBDA k : prereqs[k] # "Done")])

\* Returns None, or the list of pending keys; searchFails says the key
\* search raises JIRAError.
get_pending_prerequisite_issues(issue, searchFails) ==
    IF ~issue.hasLinks THEN Ok([isNone |-> TRUE, keys |-> <<>>])
    ELSE IF prerequisite_issues(issue) = <<>> THEN Ok([isNone |-> TRUE, keys |-> <<>>])
    ELSE IF searchFails THEN Raised("JIRAError")
    ELSE Ok([isNone |-> FALSE,
             keys |-> SelectSeq(get_issues_by_keys(prerequisite_issues(issue)),
                                LAMBDA k : prereqs[k] # "Done")])

\* Whether the activity calls the key search for this ticket.
SearchesKeys(issue) == issue.hasLinks /\ prerequisite_issues(issue) # <<>>

\* Python truthiness of an Optional[List[str]].
Truthy(opt) == ~opt.isNone /\ opt.keys # <<>>

convert_user(user) ==
    IF user = NoneUser THEN Raised("AttributeError")
    ELSE Ok(User(user.displayName, user.emailAddress, None))

\* A dict in insertion order: a sequence of (resource, users) entries.
MapKeys(m) == {m[i].resource : i \in DOMAIN m}
MapGet(m, r) == LET i == CHOOSE i \in DOMAIN m : m[i].resource = r IN m[i].users

\* resource_map[r].update(users), over a defaultdict(set).
MapUpdateOverwrite(m, r, users) ==
    IF r \in MapKeys(m)
    THEN [i \in DOMAIN m |-> IF m[i].resource = r
                             THEN [resource |-> r, users |-> users]
                             ELSE m[i]]
    ELSE Append(m, [resource |-> r, users |-> users])

MapUpdate(m, r, users) ==
    IF r \in MapKeys(m)
    THEN [i \in DOMAIN m |-> IF m[i].resource = r
                             THEN [resource |-> r, users |-> m[i].users \cup users]
                             ELSE m[i]]
    ELSE Append(m, [resource |-> r, users |-> users])

ProjectForKeyAsIs(key, cloudName) == OpenStackProject(key, cloudName)

ProjectFor(key, cloudName) == OpenStackProject(lower(key), cloudName)

\* The loop leaves at the first layer that is neither of the two.
RECURSIVE AddIntegrationsStopAtUnknown(_, _, _, _, _, _)
AddIntegrationsStopAtUnknown(m, layers, j, issue, users, ctx) ==
    IF j > Len(layers) THEN m
    ELSE CASE layers[j] = "Infrastructure" ->
                AddIntegrationsStopAtUnknown(MapUpdate(m, ctx.infra_node, users),
                                             layers, j + 1, issue, users, ctx)
           [] layers[j] = "Platform" ->
                AddIntegrationsStopAtUnknown(
                    MapUpdate(m, ProjectFor(issue.key, ctx.cloud), users),
                    layers, j + 1, issue, users, ctx)
           [] OTHER -> m

\* The loop over the ticket's integration layers (jira.py:214-239).
RECURSIVE AddIntegrations(_, _, _, _, _, _)
AddIntegrations(m, layers, j, issue, users, ctx) ==
    IF j > Len(layers) THEN m
    ELSE LET m2 == CASE layers[j] = "Infrastructure" ->
                          MapUpdate(m, ctx.infra_node, users)
                      [] layers[j] = "Platform" ->
                          MapUpdate(m, ProjectFor(issue.key, ctx.cloud), users)
                      [] OTHER -> m
         IN AddIntegrations(m2, layers, j + 1, issue, users, ctx)

\* AccessResult.from_map / to_map.
from_map(m) ==
    [resources |-> [i \in DOMAIN m |-> m[i].resource],
     users |-> [n \in {m[i].resource.name : i \in DOMAIN m} |->
                  LET last == CHOOSE i \in DOMAIN m :
                                /\ m[i].resource.name = n
                                /\ \A k \in DOMAIN m :
                                     m[k].resource.name = n => k <= i
                  IN m[last].users]]

to_map(ar) ==
    [i \in DOMAIN ar.resources |->
        [resource |-> ar.resources[i],
         users |-> IF ar.resources[i].name \in DOMAIN ar.users
                   THEN ar.users[ar.resources[i].name] ELSE {}]]

\* The loop over the sprint's issues (jira.py:197-239).  calls counts the
\* tracker client calls made so far; the failAt-th call raises JIRAError.
RECURSIVE ProcessIssues(_, _, _, _, _)
ProcessIssues(i, m, calls, failAt, ctx) ==
    IF i > Len(issues) THEN Ok(from_map(m))
    ELSE
    LET issue == issues[i] IN
    IF is_issue_completed(issue) THEN ProcessIssues(i + 1, m, calls, failAt, ctx)
    ELSE
    LET calls2 == IF SearchesKeys(issue) THEN calls + 1 ELSE calls
        pending == get_pending_prerequisite_issues(issue, failAt = calls2)
    IN
    IF pending.status = "raised" THEN pending
    ELSE IF Truthy(pending.value) THEN ProcessIssues(i + 1, m, calls2, failAt, ctx)
    ELSE
    LET jira_users == Append(issue.collaborators, issue.assignee) IN
    IF \E j \in DOMAIN jira_users : convert_user(jira_users[j]).status = "raised"
    THEN Raised("AttributeError")
    ELSE
    LET users == {convert_user(jira_users[j]).value : j \in DOMAIN jira_users} IN
    ProcessIssues(i + 1, AddIntegrations(m, issue.layers, 1, issue, users, ctx),
                  calls2, failAt, ctx)

infra_node_name(cloudName) == cloudName \o "-infra-node"

\* get_access_for_current_sprint(cloud); failAt = 1 is the sprint search.
get_access_for_current_sprint(cloudName, failAt) ==
    IF failAt = 1 THEN Raised("JIRAError")
    ELSE IF ConfGet(cloudName).status = "raised" THEN ConfGet(cloudName)
    ELSE ProcessIssues(1, <<>>, 1, failAt,
            [cloud |-> cloudName,
             infra_node |-> InfraNode(infra_node_name(cloudName),
                                      ConfGet(cloudName).value.infra_node)])

-----------------------------------------------------------------------------
(* activities/launchpad.py                                                 *)

\* result.add_success / result.add_failure on a task's result.
add_success(task, user) == [task EXCEPT !.success = Append(@, user)]

add_failure_lost(task, user, reason) == task

add_failure(task, user, reason) ==
    [task EXCEPT !.failed = Append(@, <<user, reason>>)]

\* LaunchpadGroupChangeResult.has_failures: len(self.failed) == 0.
has_failures(task) == Len(task.failed) = 0

\* The group every grant requires membership of: launchpad.people["canonical"].
CanonicalGroup == "canonical"

Membership(team, status) == [team |-> team, status |-> status]

Person(is_valid, memberships_details) ==
    [is_valid |-> is_valid, memberships_details |-> memberships_details]

\* The scan of _check_memberships from position i on, with its two breaks.
RECURSIVE ScanMemberships(_, _, _, _, _, _)
ScanMemberships(ms, i, canonical_group, target_group, is_employee, already_in_group) ==
    IF i > Len(ms) THEN <<is_employee, already_in_group>>
    ELSE IF ms[i].team = canonical_group
    THEN IF already_in_group THEN <<TRUE, already_in_group>>
         ELSE ScanMemberships(ms, i + 1, canonical_group, target_group,
                              TRUE, already_in_group)
    ELSE IF /\ ms[i].team = target_group
            /\ ms[i].status \in {"Approved", "Administrator"}
    THEN IF is_employee THEN <<is_employee, TRUE>>
         ELSE ScanMemberships(ms, i + 1, canonical_group, target_group,
                              is_employee, TRUE)
    ELSE ScanMemberships(ms, i + 1, canonical_group, target_group,
                         is_employee, already_in_group)

check_memberships_swapped(lp_user, canonical_group, target_group) ==
    LET r == ScanMemberships(lp_user.memberships_details, 1, canonical_group,
                             target_group, FALSE, FALSE)
    IN <<r[2], r[1]>>

\* The check counting a membership of the target group of any status.
check_memberships_any_status(lp_user, canonical_group, target_group) ==
    << \E i \in DOMAIN lp_user.memberships_details :
           lp_user.memberships_details[i].team = canonical_group,
       \E i \in DOMAIN lp_user.memberships_details :
           lp_user.memberships_details[i].team = target_group >>

\* _check_memberships: (is_employee, already_in_group).
check_memberships(lp_user, canonical_group, target_group) ==
    ScanMemberships(lp_user.memberships_details, 1, canonical_group,
                    target_group, FALSE, FALSE)

\* What lines 117-139 decide for one user, up to the call of addMember.
UserDecision(user, group) ==
    IF user.launchpad_id = None THEN "no launchpad id"
    ELSE IF user.launchpad_id \notin DOMAIN lp THEN "User not in launchpad"
    ELSE IF ~lp[user.launchpad_id].is_valid THEN "invalid launchpad user"
    ELSE IF ~check_memberships(lp[user.launchpad_id], CanonicalGroup, group)[1]
    THEN "not a Canonical employee"
    ELSE IF check_memberships(lp[user.launchpad_id], CanonicalGroup, group)[2]
    THEN "already in group"
    ELSE "addMember"

\* lp_group.addMember(person, status="Approved") on the person's memberships.
WithMembership(ms, team, status) ==
    IF \E i \in DOMAIN ms : ms[i].team = team
    THEN [i \in DOMAIN ms |-> IF ms[i].team = team
                              THEN Membership(team, status) ELSE ms[i]]
    ELSE Append(ms, Membership(team, status))

\* A started add_users_to_group(group, users): todo are the users the loop
\* has not reached, cur the user it is about to call addMember for.
NewTask(group, users) ==
    [group |-> group, users |-> users, todo |-> users, cur |-> <<>>,
     success |-> <<>>, failed |-> <<>>, status |-> "running"]

\* The loop body up to addMember, for the next user of the iteration.
GrantCheck(t) ==
    /\ tasks[t].status = "running"
    /\ tasks[t].cur = <<>>
    /\ \E user \in tasks[t].todo :
          LET task == [tasks[t] EXCEPT !.todo = @ \ {user}]
              d == UserDecision(user, task.group)
          IN tasks' = [tasks EXCEPT ![t] =
                 CASE d = "addMember" -> [task EXCEPT !.cur = <<user>>]
                   [] d = "already in group" -> add_success(task, user)
                   [] OTHER -> add_failure(task, user, d)]
    /\ UNCHANGED <<conf, cloud, issues, prereqs, access_result, ldap, lp, pc,
                   run, resource_map, resolveIdx, result, addCalls, prevSuccess,
                   users_arg, resolved, ldapOps, trackerFailAt>>

AddCall(t, user) ==
    [run |-> run, task |-> t, group |-> tasks[t].group, user |-> user]

\* lp_group.addMember succeeds: the person is now Approved in the group.
GrantAdd(t) ==
    /\ tasks[t].status = "running"
    /\ tasks[t].cur # <<>>
    /\ LET user == tasks[t].cur[1] IN
          /\ addCalls' = addCalls \cup {AddCall(t, user)}
          /\ lp' = [lp EXCEPT ![user.launchpad_id].memberships_details =
                        WithMembership(@, tasks[t].group, "Approved")]
          /\ tasks' = [tasks EXCEPT ![t] =
                          add_success([@ EXCEPT !.cur = <<>>], user)]
    /\ UNCHANGED <<conf, cloud, issues, prereqs, access_result, ldap, pc, run,
                   resource_map, resolveIdx, result, prevSuccess,
                   users_arg, resolved, ldapOps, trackerFailAt>>

\* lp_group.addMember raises KeyError: caught, the user is recorded failed.
GrantAddKeyError(t) ==
    /\ tasks[t].status = "running"
    /\ tasks[t].cur # <<>>
    /\ LET user == tasks[t].cur[1] IN
          /\ addCalls' = addCalls \cup {AddCall(t, user)}
          /\ tasks' = [tasks EXCEPT ![t] =
                          add_failure([@ EXCEPT !.cur = <<>>], user,
                                      "User not in launchpad")]
    /\ UNCHANGED <<conf, cloud, issues, prereqs, access_result, ldap, lp, pc,
                   run, resource_map, resolveIdx, result, prevSuccess,
                   users_arg, resolved, ldapOps, trackerFailAt>>

\* The loop is over: return result.
GrantReturn(t) ==
    /\ tasks[t].status = "running"
    /\ tasks[t].cur = <<>>
    /\ tasks[t].todo = {}
    /\ tasks' = [tasks EXCEPT ![t].status = "returned"]
    /\ UNCHANGED <<conf, cloud, issues, prereqs, access_result, ldap, lp, pc,
                   run, resource_map, resolveIdx, result, addCalls, prevSuccess,
                   users_arg, resolved, ldapOps, trackerFailAt>>

\* Any exception but KeyError of the Launchpad client (the login, the lookup
\* of the group, a call failing because the service is unavailable) leaves
\* the activity: the invocation fails.
GrantFatal(t) ==
    /\ tasks[t].status = "running"
    /\ tasks' = [tasks EXCEPT ![t].status = "raised"]
    /\ UNCHANGED <<conf, cloud, issues, prereqs, access_result, ldap, lp, pc,
                   run, resource_map, resolveIdx, result, addCalls, prevSuccess,
                   users_arg, resolved, ldapOps, trackerFailAt>>

-----------------------------------------------------------------------------
(* SpecGrant: the group-change activity on its own                         *)

\* A batch holds at most this many users.
MaxBatch == 3

GrantUsers ==
    { User("ann", "ann@example.com", "ann-lp"),
      User("bob", "bob@example.com", None),
      User("cat", "cat@example.com", "cat-lp"),
      User("dan", "dan@example.com", "dan-lp") }

\* The memberships a person may start with, around target group g.
MembershipPool(g) ==
    { <<>>,
      <<Membership(CanonicalGroup, "Approved")>>,
      <<Membership(g, "Approved")>>,
      <<Membership(g, "Proposed"), Membership(CanonicalGroup, "Approved")>>,
      <<Membership(CanonicalGroup, "Approved"), Membership(g, "Administrator")>>,
      <<Membership(g, "Approved"), Membership("other-team", "Approved"),
        Membership(CanonicalGroup, "Approved")>> }

PersonPool(g) ==
    {Person(TRUE, ms) : ms \in MembershipPool(g)}
        \cup {Person(FALSE, <<Membership(CanonicalGroup, "Approved")>>)}

\* dan-lp is no person of Launchpad.
LaunchpadPool(g) == [{"ann-lp", "cat-lp"} -> PersonPool(g)]

InitGrant ==
    /\ conf = ConfPlain
    /\ cloud = "PC5a"
    /\ issues = <<>>
    /\ prereqs = <<>>
    /\ access_result = Idle
    /\ ldap = <<>>
    /\ \E g \in {"pc5a-infra", CanonicalGroup} :
          /\ lp \in LaunchpadPool(g)
          /\ \E users \in {b \in SUBSET GrantUsers : Cardinality(b) <= MaxBatch} :
                tasks = <<NewTask(g, users)>>
    /\ pc = "idle"
    /\ run = 0
    /\ resource_map = <<>>
    /\ resolveIdx = 0
    /\ result = <<>>
    /\ addCalls = {}
    /\ prevSuccess = {}
    /\ users_arg = {}
    /\ resolved = Idle
    /\ ldapOps = <<>>
    /\ trackerFailAt = 0

NextGrant ==
    \/ \E t \in DOMAIN tasks : GrantCheck(t)
    \/ \E t \in DOMAIN tasks : GrantAdd(t)
    \/ \E t \in DOMAIN tasks : GrantAddKeyError(t)
    \/ \E t \in DOMAIN tasks : GrantReturn(t)
    \/ \E t \in DOMAIN tasks : GrantFatal(t)

SpecGrant == InitGrant /\ [][NextGrant]_vars

-----------------------------------------------------------------------------
(* SpecExtract: the extractor activity on its own                          *)

InitRest ==
    /\ ldap = <<>>
    /\ lp = <<>>
    /\ pc = "idle"
    /\ run = 0
    /\ resource_map = <<>>
    /\ resolveIdx = 0
    /\ tasks = <<>>
    /\ result = <<>>
    /\ addCalls = {}
    /\ prevSuccess = {}
    /\ users_arg = {}
    /\ resolved = Idle
    /\ ldapOps = <<>>
    /\ trackerFailAt = 0

InitExtract ==
    /\ conf = ConfPlain
    /\ cloud = "PC5a"
    /\ issues \in TicketLists(MaxTickets)
    /\ prereqs \in PrereqPool
    /\ access_result = Idle
    /\ InitRest

\* One invocation of the activity; the tracker may fail any of its calls.
ExtractActivity ==
    /\ access_result = Idle
    /\ \E failAt \in 0 .. (1 + MaxTickets) :
          /\ trackerFailAt' = failAt
          /\ access_result' = get_access_for_current_sprint(cloud, failAt)
    /\ UNCHANGED <<conf, cloud, issues, prereqs, ldap, lp, pc, run, resource_map,
                   resolveIdx, tasks, result, addCalls, prevSuccess,
                   users_arg, resolved, ldapOps>>

NextExtract == ExtractActivity

SpecExtract == InitExtract /\ [][NextExtract]_vars

-----------------------------------------------------------------------------
(* activities/ldap.py                                                      *)

ATTR_CN == "cn"
ATTR_LAUNCHPAD_ID == "launchpadId"
ATTR_MAIL == "mail"

Entry(cn, mail, launchpadId) == [cn |-> cn, mail |-> mail, launchpadId |-> launchpadId]

\* dict.get() finding nothing.
NoEntry == [missing |-> TRUE]

get_identity_attribute(user) ==
    IF user.email # None THEN ATTR_MAIL
    ELSE IF user.launchpad_id # None THEN ATTR_LAUNCHPAD_ID
    ELSE ATTR_CN

\* Whether an entry satisfies the user's clause of get_filter_parameter.
MatchesFilterParameter(user, entry) ==
    IF user.email # None THEN entry.mail = user.email
    ELSE IF user.launchpad_id # None THEN entry.launchpadId = user.launchpad_id
    ELSE entry.cn = user.name

is_fully_resolved_inverted(user) ==
    user.email = None /\ user.launchpad_id = None /\ user.name = None

is_fully_resolved(user) ==
    user.email # None /\ user.launchpad_id # None /\ user.name # None

\* client.search with the OR of the users' clauses: client.entries.
SearchEntries(users) ==
    SelectSeq(ldap, LAMBDA entry : \E u \in users : MatchesFilterParameter(u, entry))

\* results_map[attr].get(value): the last entry written under that value.
ResultsMapGet(entries, attr, value) ==
    LET hits == {i \in DOMAIN entries : entries[i][attr] = value}
    IN IF hits = {} THEN NoEntry
       ELSE entries[CHOOSE i \in hits : \A k \in hits : k <= i]

\* The lookup of one user (ldap.py:147-153).  The walrus binds attr to the
\* comparison get_identity_attribute(user) == ATTR_MAIL, a bool, and a bool
\* never equals the string ATTR_LAUNCHPAD_ID.
LookupUser(user, entries) ==
    LET attr == (get_identity_attribute(user) = ATTR_MAIL)
        attrIsLaunchpadId == FALSE
    IN IF attr THEN ResultsMapGet(entries, "mail", user.email)
       ELSE IF attrIsLaunchpadId
            THEN ResultsMapGet(entries, "launchpadId", user.launchpad_id)
       ELSE ResultsMapGet(entries, "cn", user.name)

\* resolve_users with an empty search result returned as an empty set.
resolve_users_empty_ok(users, bindFails) ==
    IF users = {} THEN Ok({})
    ELSE IF \A u \in users : is_fully_resolved(u) THEN Ok(users)
    ELSE IF bindFails THEN Raised("LDAPException")
    ELSE IF SearchEntries(users) = <<>> THEN Ok({})
    ELSE IF \E u \in users : LookupUser(u, SearchEntries(users)) = NoEntry
    THEN Raised("AttributeError")
    ELSE Ok({ User(LookupUser(u, SearchEntries(users)).cn,
                   LookupUser(u, SearchEntries(users)).mail,
                   LookupUser(u, SearchEntries(users)).launchpadId) : u \in users })

\* resolve_users keeping the name the caller passed for each user.
resolve_users_keep_name(users, bindFails) ==
    IF users = {} THEN Ok({})
    ELSE IF \A u \in users : is_fully_resolved(u) THEN Ok(users)
    ELSE IF bindFails THEN Raised("LDAPException")
    ELSE IF SearchEntries(users) = <<>> THEN Raised("Exception")
    ELSE IF \E u \in users : LookupUser(u, SearchEntries(users)) = NoEntry
    THEN Raised("AttributeError")
    ELSE Ok({ User(u.name,
                   LookupUser(u, SearchEntries(users)).mail,
                   LookupUser(u, SearchEntries(users)).launchpadId) : u \in users })

\* resolve_users(users); bindFails says the connection raises LDAPException.
resolve_users(users, bindFails) ==
    IF users = {} THEN Ok({})
    ELSE IF \A u \in users : is_fully_resolved(u) THEN Ok(users)
    ELSE IF bindFails THEN Raised("LDAPException")
    ELSE IF SearchEntries(users) = <<>> THEN Raised("Exception")
    ELSE IF \E u \in users : LookupUser(u, SearchEntries(users)) = NoEntry
    THEN Raised("AttributeError")
    ELSE Ok({ User(LookupUser(u, SearchEntries(users)).cn,
                   LookupUser(u, SearchEntries(users)).mail,
                   LookupUser(u, SearchEntries(users)).launchpadId) : u \in users })

\* The directory client operations resolve_users(users) performs: none on
\* the two early returns, Connection/bind, then the one combined search.
resolve_users_ops(users, bindFails) ==
    IF users = {} THEN <<>>
    ELSE IF \A u \in users : is_fully_resolved(u) THEN <<>>
    ELSE IF bindFails THEN <<"bind">>
    ELSE <<"bind", "search">>

-----------------------------------------------------------------------------
(* SpecResolve: the resolver activity on its own                           *)

E_ann == Entry("ann", "ann@example.com", "ann-lp")
E_bob == Entry("bob", "bob@example.com", "bob-lp")
E_cat == Entry("cat", "cat@example.com", "cat-lp")
\* A second person named bob, who has no launchpad id.
E_bob2 == Entry("bob", "bob2@example.com", None)

LdapPool ==
    { <<E_ann, E_bob, E_cat>>,
      <<E_ann, E_cat>>,
      <<E_ann, E_bob, E_cat, E_bob2>>,
      <<>> }

\* Users as a caller may pass them: complete, known by one attribute only,
\* complete but gone from the directory (eve), unknown to it (dan), known
\* to the tracker under another name than the directory's cn (rob), known
\* by a launchpad id no person of the directory has (old-lp).
ResolveUsers ==
    { User("ann", "ann@example.com", "ann-lp"),
      User("bob", None, "old-lp"),
      User("rob", "bob2@example.com", None),
      User("cat", "cat@example.com", "cat-lp"),
      User("eve", "eve@example.com", "eve-lp"),
      User("bob", "bob@example.com", None),
      User("bob", None, "bob-lp"),
      User("ann", None, None),
      User("dan", "dan@example.com", None) }

InitResolve ==
    /\ conf = ConfPlain
    /\ cloud = "PC5a"
    /\ issues = <<>>
    /\ prereqs = <<>>
    /\ access_result = Idle
    /\ ldap \in LdapPool
    /\ lp = <<>>
    /\ pc = "idle"
    /\ run = 0
    /\ resource_map = <<>>
    /\ resolveIdx = 0
    /\ tasks = <<>>
    /\ result = <<>>
    /\ addCalls = {}
    /\ prevSuccess = {}
    /\ users_arg \in {b \in SUBSET ResolveUsers : Cardinality(b) <= MaxBatch}
    /\ resolved = Idle
    /\ ldapOps = <<>>
    /\ trackerFailAt = 0

\* One invocation of the activity; the directory connection may fail.
ResolveActivity ==
    /\ resolved = Idle
    /\ \E bindFails \in BOOLEAN :
          /\ resolved' = resolve_users(users_arg, bindFails)
          /\ ldapOps' = resolve_users_ops(users_arg, bindFails)
    /\ UNCHANGED <<conf, cloud, issues, prereqs, access_result, ldap, lp, pc, run,
                   resource_map, resolveIdx, tasks, result, addCalls, prevSuccess,
                   users_arg, trackerFailAt>>

NextResolve == ResolveActivity

SpecResolve == InitResolve /\ [][NextResolve]_vars

-----------------------------------------------------------------------------
(* workflows/grant_access.py                                               *)

\* The workflow is run this many times in a row.
MaxRuns == 2

\* The loop keeps the last section it looked at when none has the name.
CloudConfigIndexLast(cloudName) ==
    LET hits == {i \in DOMAIN conf.clouds :
                    conf.sections[conf.clouds[i]].name = cloudName}
    IN IF hits = {} THEN Len(conf.clouds)
       ELSE CHOOSE i \in hits : \A k \in hits : i <= k

\* The loop over CONF.clouds: the first section whose name is the cloud.
CloudConfigIndex(cloudName) ==
    LET hits == {i \in DOMAIN conf.clouds :
                    conf.sections[conf.clouds[i]].name = cloudName}
    IN IF hits = {} THEN 0 ELSE CHOOSE i \in hits : \A k \in hits : i <= k

cloud_config == conf.sections[conf.clouds[CloudConfigIndex(cloud)]]

\* The successes the returned grant calls of the run recorded.
RecordedSuccess ==
    UNION { {[group |-> tasks[t].group, user |-> tasks[t].success[i]] :
                i \in DOMAIN tasks[t].success} :
            t \in {x \in DOMAIN tasks : tasks[x].status = "returned"} }

\* run() is started, and looks up the cloud's configuration (lines 72-84).
StartRun ==
    /\ pc \in {"idle", "completed", "failed"}
    /\ run < MaxRuns
    /\ run' = run + 1
    /\ prevSuccess' = RecordedSuccess
    /\ tasks' = <<>>
    /\ resource_map' = <<>>
    /\ resolveIdx' = 0
    /\ result' = <<>>
    /\ access_result' = Idle
    /\ users_arg' = {}
    /\ resolved' = Idle
    /\ ldapOps' = <<>>
    /\ pc' = IF CloudConfigIndex(cloud) = 0 THEN "failed" ELSE "extract"
    /\ UNCHANGED <<conf, cloud, issues, prereqs, ldap, lp, addCalls, trackerFailAt>>

\* await execute_activity(jira.get_access_for_current_sprint) (lines 86-91).
ExecuteExtract ==
    /\ pc = "extract"
    /\ \E failAt \in 0 .. (1 + MaxTickets) :
          /\ access_result' = get_access_for_current_sprint(cloud_config.name, failAt)
          /\ IF access_result'.status = "raised"
             THEN pc' = "failed" /\ UNCHANGED resource_map
             ELSE pc' = "resolve" /\ resource_map' = to_map(access_result'.value)
    /\ UNCHANGED <<conf, cloud, issues, prereqs, ldap, lp, run, resolveIdx,
                   tasks, result, addCalls, prevSuccess,
                   users_arg, resolved, ldapOps, trackerFailAt>>

\* The iteration without line 104: the resolved set is not written back.
ExecuteResolveDiscard ==
    /\ pc = "resolve"
    /\ resolveIdx < Len(resource_map)
    /\ \E bindFails \in BOOLEAN :
          LET users == resource_map[resolveIdx + 1].users
              r == resolve_users(users, bindFails)
          IN /\ users_arg' = users
             /\ resolved' = r
             /\ ldapOps' = resolve_users_ops(users, bindFails)
             /\ IF r.status = "raised"
                THEN pc' = "failed" /\ UNCHANGED <<resource_map, resolveIdx>>
                ELSE /\ resource_map' = resource_map
                     /\ resolveIdx' = resolveIdx + 1
                     /\ pc' = pc
    /\ UNCHANGED <<conf, cloud, issues, prereqs, access_result, ldap, lp, run,
                   tasks, result, addCalls, prevSuccess, trackerFailAt>>

\* The iteration writing the resolved set to every resource of the map.
ExecuteResolveAll ==
    /\ pc = "resolve"
    /\ resolveIdx < Len(resource_map)
    /\ \E bindFails \in BOOLEAN :
          LET users == resource_map[resolveIdx + 1].users
              r == resolve_users(users, bindFails)
          IN /\ users_arg' = users
             /\ resolved' = r
             /\ ldapOps' = resolve_users_ops(users, bindFails)
             /\ IF r.status = "raised"
                THEN pc' = "failed" /\ UNCHANGED <<resource_map, resolveIdx>>
                ELSE /\ resource_map' = [i \in DOMAIN resource_map |->
                                            [resource_map[i] EXCEPT !.users = r.value]]
                     /\ resolveIdx' = resolveIdx + 1
                     /\ pc' = pc
    /\ UNCHANGED <<conf, cloud, issues, prereqs, access_result, ldap, lp, run,
                   tasks, result, addCalls, prevSuccess, trackerFailAt>>

\* The iteration going on to the next resource when resolve_users raised.
ExecuteResolveContinue ==
    /\ pc = "resolve"
    /\ resolveIdx < Len(resource_map)
    /\ \E bindFails \in BOOLEAN :
          LET users == resource_map[resolveIdx + 1].users
              r == resolve_users(users, bindFails)
          IN /\ users_arg' = users
             /\ resolved' = r
             /\ ldapOps' = resolve_users_ops(users, bindFails)
             /\ resource_map' = IF r.status = "raised" THEN resource_map
                                ELSE [resource_map EXCEPT
                                         ![resolveIdx + 1].users = r.value]
             /\ resolveIdx' = resolveIdx + 1
             /\ pc' = pc
    /\ UNCHANGED <<conf, cloud, issues, prereqs, access_result, ldap, lp, run,
                   tasks, result, addCalls, prevSuccess, trackerFailAt>>

\* One iteration of the loop awaiting ldap.resolve_users (lines 97-104).
ExecuteResolve ==
    /\ pc = "resolve"
    /\ resolveIdx < Len(resource_map)
    /\ \E bindFails \in BOOLEAN :
          LET users == resource_map[resolveIdx + 1].users
              r == resolve_users(users, bindFails)
          IN /\ users_arg' = users
             /\ resolved' = r
             /\ ldapOps' = resolve_users_ops(users, bindFails)
             /\ IF r.status = "raised"
                THEN pc' = "failed" /\ UNCHANGED <<resource_map, resolveIdx>>
                ELSE /\ resource_map' = [resource_map EXCEPT
                                            ![resolveIdx + 1].users = r.value]
                     /\ resolveIdx' = resolveIdx + 1
                     /\ pc' = pc
    /\ UNCHANGED <<conf, cloud, issues, prereqs, access_result, ldap, lp, run,
                   tasks, result, addCalls, prevSuccess, trackerFailAt>>

\* Both branches name the infra group.
GroupForInfraOnly(resource) == cloud_config.infra_group

\* The group a resource's users are sent to (lines 113-131).
GroupFor(resource) ==
    IF resource.kind = "InfraNode" THEN cloud_config.infra_group
    ELSE cloud_config.user_group

\* The loop without its "if not users: continue".
RECURSIVE CreateTasksNoSkip(_, _)
CreateTasksNoSkip(i, created) ==
    IF i > Len(resource_map) THEN created
    ELSE CreateTasksNoSkip(i + 1,
            Append(created, NewTask(GroupFor(resource_map[i].resource),
                                    resource_map[i].users)))

\* The loop creating one task per resource with users (lines 106-131).
RECURSIVE CreateTasks(_, _)
CreateTasks(i, created) ==
    IF i > Len(resource_map) THEN created
    ELSE IF resource_map[i].users = {} THEN CreateTasks(i + 1, created)
    ELSE CreateTasks(i + 1,
            Append(created, NewTask(GroupFor(resource_map[i].resource),
                                    resource_map[i].users)))

\* The tasks are created without the resolve loop having finished.
FanOutEarly ==
    /\ pc = "resolve"
    /\ tasks' = CreateTasks(1, <<>>)
    /\ pc' = "join"
    /\ UNCHANGED <<conf, cloud, issues, prereqs, access_result, ldap, lp, run,
                   resource_map, resolveIdx, result, addCalls, prevSuccess,
                   users_arg, resolved, ldapOps, trackerFailAt>>

\* The tasks are created in the opposite order of the map's resources.
FanOutReversed ==
    /\ pc = "resolve"
    /\ resolveIdx = Len(resource_map)
    /\ LET created == CreateTasks(1, <<>>)
       IN tasks' = [k \in DOMAIN created |-> created[Len(created) + 1 - k]]
    /\ pc' = "join"
    /\ UNCHANGED <<conf, cloud, issues, prereqs, access_result, ldap, lp, run,
                   resource_map, resolveIdx, result, addCalls, prevSuccess,
                   users_arg, resolved, ldapOps, trackerFailAt>>

FanOut ==
    /\ pc = "resolve"
    /\ resolveIdx = Len(resource_map)
    /\ tasks' = CreateTasks(1, <<>>)
    /\ pc' = "join"
    /\ UNCHANGED <<conf, cloud, issues, prereqs, access_result, ldap, lp, run,
                   resource_map, resolveIdx, result, addCalls, prevSuccess,
                   users_arg, resolved, ldapOps, trackerFailAt>>

TaskDone(t) == tasks[t].status \in {"returned", "raised"}

\* The wait returns with the first task that is done.
JoinFirstCompleted ==
    /\ pc = "join"
    /\ tasks = <<>> \/ \E t \in DOMAIN tasks : TaskDone(t)
    /\ result' = <<0, 0>>
    /\ pc' = "completed"
    /\ UNCHANGED <<conf, cloud, issues, prereqs, access_result, ldap, lp, run,
                   resource_map, resolveIdx, tasks, addCalls, prevSuccess,
                   users_arg, resolved, ldapOps, trackerFailAt>>

\* The wait is made for an empty list of tasks too, and never returns then.
JoinNonEmpty ==
    /\ pc = "join"
    /\ tasks # <<>>
    /\ \A t \in DOMAIN tasks : TaskDone(t)
    /\ result' = <<0, 0>>
    /\ pc' = "completed"
    /\ UNCHANGED <<conf, cloud, issues, prereqs, access_result, ldap, lp, run,
                   resource_map, resolveIdx, tasks, addCalls, prevSuccess,
                   users_arg, resolved, ldapOps, trackerFailAt>>

\* if tasks: await asyncio.wait(tasks); return 0, 0 (lines 133-137).
\* asyncio.wait returns once every task is done and raises nothing itself.
Join ==
    /\ pc = "join"
    /\ \A t \in DOMAIN tasks : TaskDone(t)
    /\ result' = <<0, 0>>
    /\ pc' = "completed"
    /\ UNCHANGED <<conf, cloud, issues, prereqs, access_result, ldap, lp, run,
                   resource_map, resolveIdx, tasks, addCalls, prevSuccess,
                   users_arg, resolved, ldapOps, trackerFailAt>>

\* The run is cancelled while it awaits an activity or asyncio.wait(tasks):
\* CancelledError is raised at that await and nothing in run() catches it.
\* asyncio.wait does not cancel the tasks it was waiting for, and run() holds
\* no other reference through which it could: the started invocations of
\* add_users_to_group go on.  No further run is started after a cancelled
\* one.
Cancel ==
    /\ pc \in {"extract", "resolve", "join"}
    /\ pc' = "cancelled"
    /\ UNCHANGED <<conf, cloud, issues, prereqs, access_result, ldap, lp, run,
                   resource_map, resolveIdx, tasks, result, addCalls, prevSuccess,
                   users_arg, resolved, ldapOps, trackerFailAt>>

-----------------------------------------------------------------------------
(* Spec: the workflow, run MaxRuns times in a row                          *)

\* infra_group is the trust-domain group itself.
ConfCanonical ==
    Conf(<<"PC5a">>,
         [c \in {"PC5a"} |-> Section("PC5a", CanonicalGroup, "pc5a-users", "10.0.0.5")])

\* No section is named, or has the name, PC5a.
ConfOther ==
    Conf(<<"PC6">>,
         [c \in {"PC6"} |-> Section("PC6", "pc6-infra", "pc6-users", "10.0.0.6")])

NoLinks == [hasLinks |-> FALSE, issuelinks |-> <<>>]

\* What the sprint search returns in the runs of the workflow.
WorkflowIssues ==
    { <<>>,
      <<Ticket("PACLOUD-42", "In Progress", <<"Platform">>,
               [collaborators |-> <<Ann>>, assignee |-> Bob], NoLinks)>>,
      <<Ticket("PACLOUD-42", "In Progress", <<"Infrastructure">>,
               [collaborators |-> <<>>, assignee |-> Cat], NoLinks),
        Ticket("PACLOUD-41", "In Progress", <<"Infrastructure">>,
               [collaborators |-> <<Ann>>, assignee |-> Bob], NoLinks)>>,
      <<Ticket("PACLOUD-42", "In Progress", <<"Infrastructure", "Platform">>,
               [collaborators |-> <<>>, assignee |-> Ann], NoLinks),
        Ticket("PACLOUD-41", "In Progress", <<"Platform">>,
               [collaborators |-> <<Ann>>, assignee |-> Bob], NoLinks)>>,
      <<Ticket("PACLOUD-42", "In Progress", <<"Platform">>,
               [collaborators |-> <<Ann, Cat>>, assignee |-> NoneUser], NoLinks)>>,
      <<Ticket("PACLOUD-42", "Done", <<"Platform">>,
               [collaborators |-> <<Ann>>, assignee |-> Bob], NoLinks)>> }

WorkflowPersonPool ==
    { Person(TRUE, <<>>),
      Person(TRUE, <<Membership(CanonicalGroup, "Approved")>>),
      Person(TRUE, <<Membership("pc5a-users", "Approved"),
                     Membership(CanonicalGroup, "Approved")>>) }

\* cat-lp is no person of Launchpad.
WorkflowLaunchpadPool == [{"ann-lp", "bob-lp"} -> WorkflowPersonPool]

Init ==
    /\ conf \in {ConfPlain, ConfFriendly, ConfCanonical, ConfOther}
    /\ cloud = "PC5a"
    /\ issues \in WorkflowIssues
    /\ prereqs \in {[k \in {"PACLOUD-7", "INFRA-7"} |-> "In Progress"]}
    /\ access_result = Idle
    /\ ldap \in LdapPool
    /\ lp \in WorkflowLaunchpadPool
    /\ pc = "idle"
    /\ run = 0
    /\ resource_map = <<>>
    /\ resolveIdx = 0
    /\ tasks = <<>>
    /\ result = <<>>
    /\ addCalls = {}
    /\ prevSuccess = {}
    /\ users_arg = {}
    /\ resolved = Idle
    /\ ldapOps = <<>>
    /\ trackerFailAt = 0

Next ==
    \/ StartRun
    \/ ExecuteExtract
    \/ ExecuteResolve
    \/ FanOut
    \/ \E t \in DOMAIN tasks : GrantCheck(t)
    \/ \E t \in DOMAIN tasks : GrantAdd(t)
    \/ \E t \in DOMAIN tasks : GrantAddKeyError(t)
    \/ \E t \in DOMAIN tasks : GrantReturn(t)
    \/ \E t \in DOMAIN tasks : GrantFatal(t)
    \/ Join
    \/ Cancel

Spec == Init /\ [][Next]_vars

-----------------------------------------------------------------------------
(* SpecRun: one run of the workflow                                        *)

NextRun ==
    \/ StartRun /\ run = 0
    \/ ExecuteExtract
    \/ ExecuteResolve
    \/ FanOut
    \/ \E t \in DOMAIN tasks : GrantCheck(t)
    \/ \E t \in DOMAIN tasks : GrantAdd(t)
    \/ \E t \in DOMAIN tasks : GrantAddKeyError(t)
    \/ \E t \in DOMAIN tasks : GrantReturn(t)
    \/ \E t \in DOMAIN tasks : GrantFatal(t)
    \/ Join
    \/ Cancel

SpecRun == Init /\ [][NextRun]_vars

-----------------------------------------------------------------------------
(* SpecLive: one run of the workflow that nobody cancels.  The workflow's  *)
(* coroutine goes on when what it awaits is done, and every activity       *)
(* invocation returns or fails: a step that stays possible is taken.       *)

NextLive ==
    \/ StartRun /\ run = 0
    \/ ExecuteExtract
    \/ ExecuteResolve
    \/ FanOut
    \/ \E t \in DOMAIN tasks : GrantCheck(t)
    \/ \E t \in DOMAIN tasks : GrantAdd(t)
    \/ \E t \in DOMAIN tasks : GrantAddKeyError(t)
    \/ \E t \in DOMAIN tasks : GrantReturn(t)
    \/ \E t \in DOMAIN tasks : GrantFatal(t)
    \/ Join

SpecLive == Init /\ [][NextLive]_vars /\ WF_vars(NextLive)

-----------------------------------------------------------------------------
(* SpecRoute: run() from the arrival of the extractor's result, for any     *)
(* AccessResult.  The extractor itself gives every resource it emits at     *)
(* least the ticket's assignee; here the user sets may also be empty or     *)
(* missing from the users dict.                                             *)

RouteInfra == InfraNode("PC5a-infra-node", "10.0.0.5")
RouteProject == OpenStackProject("pacloud-42", "PC5a")
RouteAnn == User("ann", "ann@example.com", None)
RouteBob == User("bob", None, None)

AccessResultPool ==
    { [resources |-> <<RouteInfra>>,
       users |-> [n \in {RouteInfra.name} |-> {}]],
      [resources |-> <<RouteInfra, RouteProject>>,
       users |-> [n \in {RouteInfra.name, RouteProject.name} |-> {}]],
      [resources |-> <<RouteInfra, RouteProject>>,
       users |-> [n \in {RouteInfra.name, RouteProject.name} |->
                    IF n = RouteInfra.name THEN {RouteAnn} ELSE {}]],
      [resources |-> <<RouteInfra, RouteProject>>,
       users |-> [n \in {RouteProject.name} |-> {RouteAnn, RouteBob}]],
      [resources |-> <<RouteInfra, RouteProject>>,
       users |-> [n \in {RouteInfra.name, RouteProject.name} |->
                    IF n = RouteInfra.name THEN {RouteAnn, RouteBob}
                    ELSE {RouteAnn}]] }

InitRoute ==
    /\ conf \in {ConfPlain, ConfCanonical}
    /\ cloud = "PC5a"
    /\ issues = <<>>
    /\ prereqs = <<>>
    /\ \E ar \in AccessResultPool :
          /\ access_result = Ok(ar)
          /\ resource_map = to_map(ar)
    /\ ldap \in LdapPool
    /\ lp \in WorkflowLaunchpadPool
    /\ pc = "resolve"
    /\ run = 1
    /\ resolveIdx = 0
    /\ tasks = <<>>
    /\ result = <<>>
    /\ addCalls = {}
    /\ prevSuccess = {}
    /\ users_arg = {}
    /\ resolved = Idle
    /\ ldapOps = <<>>
    /\ trackerFailAt = 0

NextRoute ==
    \/ ExecuteResolve
    \/ FanOut
    \/ \E t \in DOMAIN tasks : GrantCheck(t)
    \/ \E t \in DOMAIN tasks : GrantAdd(t)
    \/ \E t \in DOMAIN tasks : GrantAddKeyError(t)
    \/ \E t \in DOMAIN tasks : GrantReturn(t)
    \/ \E t \in DOMAIN tasks : GrantFatal(t)
    \/ Join
    \/ Cancel

SpecRoute == InitRoute /\ [][NextRoute]_vars

-----------------------------------------------------------------------------
(* SpecMap: a resource map handed from the extractor to run(): the          *)
(* activity returns AccessResult.from_map(resource_map) (jira.py:241) and   *)
(* run() calls to_map() on what it receives (grant_access.py:91).           *)

\* A map holds at most this many resources.
MaxResources == 2

\* A project with the name of the infra node.
RouteProjectInfraName == OpenStackProject(RouteInfra.name, "PC5a")

MapResourcePool ==
    { RouteInfra, RouteProject, OpenStackProject("pacloud-41", "PC5a"),
      RouteProjectInfraName }

MapUsersPool == (SUBSET {RouteAnn, RouteBob}) \ {{}}

\* The dicts of at most MaxResources different resources, in insertion order.
MapPool ==
    UNION { { m \in [1 .. n -> [resource : MapResourcePool, users : MapUsersPool]] :
                \A i, k \in 1 .. n : m[i].resource = m[k].resource => i = k } :
            n \in 0 .. MaxResources }

InitMap ==
    /\ conf = ConfPlain
    /\ cloud = "PC5a"
    /\ issues = <<>>
    /\ prereqs = <<>>
    /\ access_result = Idle
    /\ ldap = <<>>
    /\ lp = <<>>
    /\ pc = "from_map"
    /\ run = 1
    /\ resource_map \in MapPool
    /\ resolveIdx = 0
    /\ tasks = <<>>
    /\ result = <<>>
    /\ addCalls = {}
    /\ prevSuccess = {}
    /\ users_arg = {}
    /\ resolved = Idle
    /\ ldapOps = <<>>
    /\ trackerFailAt = 0

\* return AccessResult.from_map(resource_map) (jira.py:241).
ReturnFromMap ==
    /\ pc = "from_map"
    /\ access_result' = Ok(from_map(resource_map))
    /\ pc' = "to_map"
    /\ UNCHANGED <<conf, cloud, issues, prereqs, ldap, lp, run, resource_map,
                   resolveIdx, tasks, result, addCalls, prevSuccess,
                   users_arg, resolved, ldapOps, trackerFailAt>>

\* resource_map = access_result.to_map() (grant_access.py:91).
ReceiveToMap ==
    /\ pc = "to_map"
    /\ resource_map' = to_map(access_result.value)
    /\ pc' = "mapped"
    /\ UNCHANGED <<conf, cloud, issues, prereqs, access_result, ldap, lp, run,
                   resolveIdx, tasks, result, addCalls, prevSuccess,
                   users_arg, resolved, ldapOps, trackerFailAt>>

NextMap == ReturnFromMap \/ ReceiveToMap

SpecMap == InitMap /\ [][NextMap]_vars

-----------------------------------------------------------------------------
(* Claims about the extractor (SpecExtract)                                *)

Returned == access_result # Idle /\ access_result.status = "ok"

\* The requirement map the workflow rebuilds from the activity's result.
RequirementMap == to_map(access_result.value)

\* The users a ticket names: its collaborators and its assignee.
TicketUsers(t) ==
    {User(u.displayName, u.emailAddress, None) :
        u \in (Range(t.collaborators) \cup {t.assignee}) \ {NoneUser}}

\* The ticket asks for access to resource r.
AsksFor(t, r) ==
    \/ r.kind = "InfraNode" /\ "Infrastructure" \in Range(t.layers)
    \/ /\ r.kind = "OpenStackProject"
       /\ "Platform" \in Range(t.layers)
       /\ r.name = lower(t.key)

\* A Finish-to-Start link whose inward ticket is not Done.
HasUnresolvedPrerequisite(t) ==
    /\ t.hasLinks
    /\ \E i \in DOMAIN t.issuelinks :
          /\ t.issuelinks[i].type \in {"Finish-to-Start", "Finish-to-Start (FS)"}
          /\ t.issuelinks[i].inwardIssue # None
          /\ prereqs[t.issuelinks[i].inwardIssue] # "Done"

\* A prerequisite of the ticket that the key search returns is not Done.
HasVisibleUnresolvedPrerequisite(t) ==
    /\ t.hasLinks
    /\ \E i \in DOMAIN t.issuelinks :
          /\ t.issuelinks[i].type \in {"Finish-to-Start", "Finish-to-Start (FS)"}
          /\ t.issuelinks[i].inwardIssue # None
          /\ ProjectOf(t.issuelinks[i].inwardIssue) = JiraProject
          /\ prereqs[t.issuelinks[i].inwardIssue] # "Done"

\* C6: every user of every entry of the requirement map, and so every
\* entry, comes from a ticket that is not Done and asks for that resource:
\* a Done ticket contributes no resource and no user.
C6_DoneContributesNothing ==
    Returned =>
        \A i \in DOMAIN RequirementMap :
            /\ \E t \in Range(issues) :
                  t.status # "Done" /\ AsksFor(t, RequirementMap[i].resource)
            /\ \A u \in RequirementMap[i].users :
                  \E t \in Range(issues) :
                      /\ t.status # "Done"
                      /\ AsksFor(t, RequirementMap[i].resource)
                      /\ u \in TicketUsers(t)

\* A Done ticket asking for the infra node was skipped next to a ticket that
\* was not: its user cat is not in the infra node's entry.
C6_Witness ==
    /\ Returned
    /\ \E t \in Range(issues) :
          /\ t.status = "Done"
          /\ "Infrastructure" \in Range(t.layers)
          /\ User("cat", "cat@example.com", None) \in TicketUsers(t)
    /\ \E i \in DOMAIN RequirementMap :
          /\ RequirementMap[i].resource.kind = "InfraNode"
          /\ User("cat", "cat@example.com", None) \notin RequirementMap[i].users

\* C7: a ticket with an unresolved Finish-to-Start prerequisite contributes
\* no entries: every user of every entry comes from a ticket asking for the
\* resource that has no unresolved prerequisite.
C7_UnresolvedPrerequisiteContributesNothing ==
    Returned =>
        \A i \in DOMAIN RequirementMap :
            \A u \in RequirementMap[i].users :
                \E t \in Range(issues) :
                    /\ ~HasUnresolvedPrerequisite(t)
                    /\ AsksFor(t, RequirementMap[i].resource)
                    /\ u \in TicketUsers(t)

\* The tickets the extractor does not skip.
Accepted(t) == t.status # "Done" /\ ~HasVisibleUnresolvedPrerequisite(t)

InfraEntries ==
    {i \in DOMAIN RequirementMap : RequirementMap[i].resource.kind = "InfraNode"}

\* C8: when tickets that are not skipped ask for Infrastructure access, the
\* map has exactly one InfraNode entry, and its users are the union of the
\* users (collaborators and assignee) of all those tickets.
C8_InfraUnion ==
    (Returned /\ \E t \in Range(issues) :
                    Accepted(t) /\ "Infrastructure" \in Range(t.layers)) =>
        /\ Cardinality(InfraEntries) = 1
        /\ \A i \in InfraEntries :
              RequirementMap[i].users =
                  UNION {TicketUsers(t) : t \in
                            {x \in Range(issues) :
                                Accepted(x) /\ "Infrastructure" \in Range(x.layers)}}

\* Two accepted infrastructure tickets with different users, both kept.
C8_Witness ==
    /\ Returned
    /\ Len(issues) = 2
    /\ \A t \in Range(issues) : Accepted(t) /\ "Infrastructure" \in Range(t.layers)
    /\ TicketUsers(issues[1]) \ TicketUsers(issues[2]) # {}
    /\ TicketUsers(issues[2]) \ TicketUsers(issues[1]) # {}
    /\ \E i \in InfraEntries :
          RequirementMap[i].users = TicketUsers(issues[1]) \cup TicketUsers(issues[2])

\* C9: a ticket that is not Done, has no unresolved prerequisite and carries
\* Platform has a project entry named lowercase(key) on the supplied cloud
\* whose users contain the ticket's collaborators and assignee.
C9_PlatformProject ==
    Returned =>
        \A t \in Range(issues) :
            (/\ t.status # "Done"
             /\ ~HasUnresolvedPrerequisite(t)
             /\ "Platform" \in Range(t.layers)) =>
                \E i \in DOMAIN RequirementMap :
                    /\ RequirementMap[i].resource =
                          OpenStackProject(lower(t.key), cloud)
                    /\ TicketUsers(t) \subseteq RequirementMap[i].users

\* PACLOUD-42, In Progress, [Platform], collaborator ann, assignee bob.
C9_Witness ==
    /\ Returned
    /\ issues = <<Ticket("PACLOUD-42", "In Progress", <<"Platform">>,
                         [collaborators |-> <<Ann>>, assignee |-> Bob],
                         [hasLinks |-> FALSE, issuelinks |-> <<>>])>>
    /\ RequirementMap =
          <<[resource |-> OpenStackProject("pacloud-42", "PC5a"),
             users |-> {User("ann", "ann@example.com", None),
                        User("bob", None, None)}]>>

\* C10: a null assignee is not an error: the extraction aborts only on a
\* tracker or configuration error, and when it returns, the collaborators of
\* a ticket with a null assignee are in the entries of its resources.
C10_NullAssigneeDropped ==
    /\ (access_result # Idle /\ access_result.status = "raised") =>
          access_result.error \in {"JIRAError", "NoSuchOptError"}
    /\ Returned =>
          \A t \in Range(issues) :
              (Accepted(t) /\ t.assignee = NoneUser) =>
                  \A i \in DOMAIN RequirementMap :
                      AsksFor(t, RequirementMap[i].resource) =>
                          TicketUsers(t) \subseteq RequirementMap[i].users

\* The ticket has a Finish-to-Start link naming an inward ticket.
HasPrerequisiteKeys(t) ==
    /\ t.hasLinks
    /\ \E i \in DOMAIN t.issuelinks :
          /\ t.issuelinks[i].type \in {"Finish-to-Start", "Finish-to-Start (FS)"}
          /\ t.issuelinks[i].inwardIssue # None

\* The extraction looks up the prerequisites of the i-th sprint ticket.
LooksUp(i) == issues[i].status # "Done" /\ HasPrerequisiteKeys(issues[i])

\* The extraction ends at the i-th sprint ticket for another reason than the
\* tracker: the ticket is accepted and has no assignee (see C10).
EndsAt(i) == Accepted(issues[i]) /\ issues[i].assignee = NoneUser

\* The tracker call chosen to fail is made: the sprint search, or the
\* (trackerFailAt - 1)-th prerequisite lookup of the extraction.
TrackerErrorRaised ==
    \/ trackerFailAt = 1
    \/ \E i \in DOMAIN issues :
          /\ LooksUp(i)
          /\ Cardinality({j \in 1 .. i : LooksUp(j)}) = trackerFailAt - 1
          /\ \A j \in 1 .. (i - 1) : ~EndsAt(j)

\* C19: when a tracker client call of the extraction raises, in the sprint
\* search or in a prerequisite lookup, the extraction raises that error:
\* it returns no requirement map, not even one of the tickets before.
C19_TrackerErrorAborts ==
    (access_result # Idle /\ TrackerErrorRaised) =>
        access_result = Raised("JIRAError")

\* The prerequisite lookup of the second ticket failed after the first
\* ticket had been accepted for the infra node.
C19_Witness ==
    /\ access_result = Raised("JIRAError")
    /\ trackerFailAt = 2
    /\ Len(issues) = 2
    /\ Accepted(issues[1]) /\ ~HasPrerequisiteKeys(issues[1])
    /\ issues[1].assignee # NoneUser
    /\ "Infrastructure" \in Range(issues[1].layers)
    /\ LooksUp(2)

\* The ticket carries an integration layer that is Application or unknown.
HasOtherLayer(t) ==
    \E j \in DOMAIN t.layers : t.layers[j] \notin {"Infrastructure", "Platform"}

\* C20: an Application or unknown layer value is skipped without error.
\* The extraction returns unless the tracker fails or a ticket ends it for
\* another reason; the map it returns holds exactly the infra node and the
\* projects that accepted tickets ask for by Infrastructure and Platform,
\* nothing for any other value; and every accepted ticket, with or after
\* such a value, has its users in the entries of the resources it asks for.
C20_OtherLayerSkipped ==
    /\ (/\ access_result # Idle
        /\ trackerFailAt = 0
        /\ \A i \in DOMAIN issues : ~EndsAt(i)) => Returned
    /\ Returned =>
          /\ \A i \in DOMAIN RequirementMap :
                \E t \in Range(issues) :
                    Accepted(t) /\ AsksFor(t, RequirementMap[i].resource)
          /\ \A t \in Range(issues) :
                Accepted(t) =>
                    /\ "Infrastructure" \in Range(t.layers) =>
                          \E i \in InfraEntries :
                              TicketUsers(t) \subseteq RequirementMap[i].users
                    /\ "Platform" \in Range(t.layers) =>
                          \E i \in DOMAIN RequirementMap :
                              /\ RequirementMap[i].resource =
                                    OpenStackProject(lower(t.key), cloud)
                              /\ TicketUsers(t) \subseteq RequirementMap[i].users

\* A ticket with layers Application, Infrastructure, Edge, Platform, and a
\* Platform ticket after it: the map has the infra node and the two
\* projects, and nothing else.
C20_Witness ==
    /\ Returned
    /\ Len(issues) = 2
    /\ Accepted(issues[1]) /\ Accepted(issues[2])
    /\ issues[1].layers = <<"Application", "Infrastructure", "Edge", "Platform">>
    /\ issues[2].layers = <<"Platform">>
    /\ HasOtherLayer(issues[1])
    /\ Len(RequirementMap) = 3
    /\ \E i \in InfraEntries : RequirementMap[i].users = TicketUsers(issues[1])
    /\ \E i \in DOMAIN RequirementMap :
          /\ RequirementMap[i].resource = OpenStackProject("pacloud-42", cloud)
          /\ RequirementMap[i].users = TicketUsers(issues[1])
    /\ \E i \in DOMAIN RequirementMap :
          /\ RequirementMap[i].resource = OpenStackProject("pacloud-41", cloud)
          /\ RequirementMap[i].users = TicketUsers(issues[2])

-----------------------------------------------------------------------------
(* Claims about add_users_to_group (SpecGrant)                             *)

InSuccess(t, u) == \E i \in DOMAIN tasks[t].success : tasks[t].success[i] = u
InFailed(t, u) == \E i \in DOMAIN tasks[t].failed : tasks[t].failed[i][1] = u

\* The user's Launchpad person has a membership of the trust-domain group.
Trusted(u) ==
    /\ u.launchpad_id # None
    /\ u.launchpad_id \in DOMAIN lp
    /\ \E i \in DOMAIN lp[u.launchpad_id].memberships_details :
          lp[u.launchpad_id].memberships_details[i].team = CanonicalGroup

InTargetGroup(u, g) ==
    /\ u.launchpad_id # None
    /\ u.launchpad_id \in DOMAIN lp
    /\ \E i \in DOMAIN lp[u.launchpad_id].memberships_details :
          /\ lp[u.launchpad_id].memberships_details[i].team = g
          /\ lp[u.launchpad_id].memberships_details[i].status
                \in {"Approved", "Administrator"}

\* C1: for a user whose membership list has no membership of the
\* trust-domain group, addMember is never invoked and success is never
\* recorded; when the call returns the user is in the failed list.
C1_UntrustedNeverGranted ==
    \A t \in DOMAIN tasks :
        \A u \in tasks[t].users :
            ~Trusted(u) =>
                /\ ~InSuccess(t, u)
                /\ tasks[t].cur # <<u>>
                /\ \A c \in addCalls : ~(c.task = t /\ c.user = u)
                /\ tasks[t].status = "returned" => InFailed(t, u)

\* A valid person, Approved in the target group but with no membership of
\* the trust-domain group, ended in the failed list.
C1_Witness ==
    \E t \in DOMAIN tasks :
        /\ tasks[t].status = "returned"
        /\ \E u \in tasks[t].users :
              /\ ~Trusted(u)
              /\ InTargetGroup(u, tasks[t].group)
              /\ lp[u.launchpad_id].is_valid
              /\ \E i \in DOMAIN tasks[t].failed :
                    tasks[t].failed[i] = <<u, "not a Canonical employee">>

Occurrences(t, u) ==
    Cardinality({i \in DOMAIN tasks[t].success : tasks[t].success[i] = u})
        + Cardinality({i \in DOMAIN tasks[t].failed : tasks[t].failed[i][1] = u})

\* C2: when the call returns, every input user is in exactly one of the
\* success and failed lists, once, and the lists hold nothing else; a user
\* without a launchpad id is in the failed list.  Users recorded as failed
\* do not stop the loop: it returns only after the last user.
C2_PerUserIsolation ==
    \A t \in DOMAIN tasks :
        /\ tasks[t].status = "returned" =>
              /\ \A u \in tasks[t].users : Occurrences(t, u) = 1
              /\ Len(tasks[t].success) + Len(tasks[t].failed)
                    = Cardinality(tasks[t].users)
              /\ \A u \in tasks[t].users :
                    u.launchpad_id = None =>
                        \E i \in DOMAIN tasks[t].failed :
                            tasks[t].failed[i] = <<u, "no launchpad id">>
        /\ \A u \in tasks[t].users :
              \/ u \in tasks[t].todo
              \/ tasks[t].cur = <<u>>
              \/ Occurrences(t, u) = 1

\* A batch of three where only bob has no launchpad id: one failure, for
\* bob, and two successes.
C2_Witness ==
    \E t \in DOMAIN tasks :
        /\ tasks[t].status = "returned"
        /\ Cardinality(tasks[t].users) = 3
        /\ tasks[t].failed = <<<<User("bob", "bob@example.com", None), "no launchpad id">>>>
        /\ Len(tasks[t].success) = 2

\* Some membership of the person is in the group.
MemberOf(person, g) ==
    \E i \in DOMAIN person.memberships_details :
        person.memberships_details[i].team = g

\* Some membership of the person is in the group with status Approved or
\* Administrator.
ApprovedIn(person, g) ==
    \E i \in DOMAIN person.memberships_details :
        /\ person.memberships_details[i].team = g
        /\ person.memberships_details[i].status \in {"Approved", "Administrator"}

\* C23: for every person and target group, the canonical group itself
\* included, _check_memberships returns exactly the pair (some membership is
\* in the canonical group, some membership is in the target group with status
\* Approved or Administrator).
C23_CheckMemberships ==
    \A id \in DOMAIN lp : \A t \in DOMAIN tasks :
        check_memberships(lp[id], CanonicalGroup, tasks[t].group)
            = <<MemberOf(lp[id], CanonicalGroup), ApprovedIn(lp[id], tasks[t].group)>>

\* The step records the success of user u in task t and nothing else in
\* the lists of the task.
RecordsSuccess(t, u) ==
    /\ tasks'[t].success = Append(tasks[t].success, u)
    /\ tasks'[t].failed = tasks[t].failed

\* C30: when add_users_to_group returns, every user of the success list is
\* a member of the target group with status Approved or Administrator and
\* no user of the failed list is in the success list; and the call changes
\* the memberships of a person only in the step that records the success of
\* a user with that launchpad id, so never for a user it records as failed.
C30_OutcomeMatchesGroup ==
    /\ [](\A t \in DOMAIN tasks :
             tasks[t].status = "returned" =>
                 \A u \in tasks[t].users :
                     /\ InSuccess(t, u) => InTargetGroup(u, tasks[t].group)
                     /\ InFailed(t, u) => ~InSuccess(t, u))
    /\ [][\A id \in DOMAIN lp :
             lp'[id] # lp[id] =>
                 \E t \in DOMAIN tasks : \E u \in tasks[t].users :
                     u.launchpad_id = id /\ RecordsSuccess(t, u)]_vars

\* The call returned with a user it added to the group in the success list
\* and, in the failed list, a user who is a person of Launchpad and a user
\* for whom addMember raised KeyError.
C30_Witness ==
    \E t \in DOMAIN tasks :
        /\ tasks[t].status = "returned"
        /\ \E u \in tasks[t].users :
              InSuccess(t, u) /\ \E c \in addCalls : c.task = t /\ c.user = u
        /\ \E u \in tasks[t].users :
              InFailed(t, u) /\ u.launchpad_id \in DOMAIN lp
        /\ \E u \in tasks[t].users :
              InFailed(t, u) /\ \E c \in addCalls : c.task = t /\ c.user = u

\* C36: has_failures is true exactly when the failed list of the result is
\* not empty, after any calls of add_success and add_failure.
C36_HasFailures ==
    \A t \in DOMAIN tasks :
        has_failures(tasks[t]) <=> tasks[t].failed # <<>>

-----------------------------------------------------------------------------
(* Claims about the workflow (Spec)                                        *)

\* C3: in the run after one that recorded a successful grant of a user to
\* a group, the grant calls for that group never record the user as failed
\* and never invoke addMember for the user, and one that returns has the
\* user in its success list.
C3_SecondRunIdempotent ==
    \A ps \in prevSuccess :
        \A t \in DOMAIN tasks :
            (tasks[t].group = ps.group /\ ps.user \in tasks[t].users) =>
                /\ ~InFailed(t, ps.user)
                /\ tasks[t].cur # <<ps.user>>
                /\ \A c \in addCalls :
                      ~(c.run = run /\ c.group = ps.group /\ c.user = ps.user)
                /\ tasks[t].status = "returned" => InSuccess(t, ps.user)

\* C4: the run never ends Completed when one of its grant calls failed
\* fatally.
C4_FatalGrantFailsRun ==
    pc = "completed" => \A t \in DOMAIN tasks : tasks[t].status # "raised"

RECURSIVE SumOver(_, _)
SumOver(f, n) == IF n = 0 THEN 0 ELSE f[n] + SumOver(f, n - 1)

ReturnedSuccessCount ==
    SumOver([t \in DOMAIN tasks |->
                IF tasks[t].status = "returned" THEN Len(tasks[t].success) ELSE 0],
            Len(tasks))

ReturnedFailedCount ==
    SumOver([t \in DOMAIN tasks |->
                IF tasks[t].status = "returned" THEN Len(tasks[t].failed) ELSE 0],
            Len(tasks))

\* C5: on Completed the returned summary is (number of entries of the
\* success lists, number of entries of the failed lists) of the outcomes the
\* run's grant calls returned.
C5_SummaryCounts ==
    pc = "completed" => result = <<ReturnedSuccessCount, ReturnedFailedCount>>

-----------------------------------------------------------------------------
(* Claims about the resolver (SpecResolve)                                 *)

\* Name, email and launchpad id are all populated.
Populated(u) == u.name # None /\ u.email # None /\ u.launchpad_id # None

\* C11: when every input user of resolve_users is fully resolved, the
\* invocation performs no directory operation and returns exactly the input
\* set.
C11_FastPath ==
    (resolved # Idle /\ \A u \in users_arg : Populated(u)) =>
        /\ ldapOps = <<>>
        /\ resolved = Ok(users_arg)

\* Fully resolved users, one of them gone from the directory, were passed
\* and came back.
C11_Witness ==
    /\ resolved # Idle
    /\ users_arg # {}
    /\ \A u \in users_arg : Populated(u)
    /\ \E u \in users_arg : \A i \in DOMAIN ldap : ldap[i].mail # u.email
    /\ resolved = Ok(users_arg)

\* No two users of the set have the same name.
NamesDistinct(users) == \A u, v \in users : u.name = v.name => u = v

\* C21: a set of users returned by resolve_users holds no two users of the
\* same name (stated here for a set of users of distinct names passed in).
C21_NameIdentity ==
    (resolved # Idle /\ resolved.status = "ok" /\ NamesDistinct(users_arg)) =>
        NamesDistinct(resolved.value)

\* The call went past the two early returns and the bind (the slow path).
SlowPath == ldapOps = <<"bind", "search">>

\* The value of the user's identity attribute, in the priority of
\* get_identity_attribute: email, else launchpad id, else name.
IdentityValue(u) ==
    IF u.email # None THEN u.email
    ELSE IF u.launchpad_id # None THEN u.launchpad_id
    ELSE u.name

\* The returned user r carries the input user's identity value in the field
\* of the input user's identity attribute.
MatchedByIdentity(u, r) ==
    IF u.email # None THEN r.email = u.email
    ELSE IF u.launchpad_id # None THEN r.launchpad_id = u.launchpad_id
    ELSE r.name = u.name

\* C22: on the slow path each input user is looked up by email when it has
\* one, otherwise by launchpad id when it has one, otherwise by name: the
\* returned set holds, for every input user, a user read from a record with
\* the input user's identity value; and the lookup finds a record whenever
\* the search returned one with that identity value.
C22_LookupPriority ==
    (resolved # Idle /\ SlowPath) =>
        /\ resolved.status = "ok" =>
              \A u \in users_arg : \E r \in resolved.value : MatchedByIdentity(u, r)
        /\ (\A u \in users_arg : \E i \in DOMAIN ldap :
                MatchesFilterParameter(u, ldap[i])) => resolved.status = "ok"

\* The user a directory record describes.
UserOf(entry) == User(entry.cn, entry.mail, entry.launchpadId)

\* C25 as stated: every user returned by resolve_users is fully resolved.
C25_AllFullyResolved ==
    (resolved # Idle /\ resolved.status = "ok") =>
        \A r \in resolved.value : Populated(r)

\* C25, amended: on the fast path every returned user is fully resolved; on
\* the slow path every returned user is the user one directory record
\* describes, and so lacks a launchpad id when that record has none.
C25_ResolvedAsDirectoryKnows ==
    (resolved # Idle /\ resolved.status = "ok") =>
        IF SlowPath
        THEN \A r \in resolved.value : \E i \in DOMAIN ldap : r = UserOf(ldap[i])
        ELSE resolved.value = users_arg /\ \A r \in resolved.value : Populated(r)

\* The slow path returned a user the directory completed and one for whom
\* the directory has no launchpad id.
C25_Witness ==
    /\ resolved # Idle
    /\ resolved.status = "ok"
    /\ SlowPath
    /\ \E r \in resolved.value : Populated(r) /\ r \notin users_arg
    /\ \E r \in resolved.value : r.launchpad_id = None

\* The records of the directory that match the user's lookup key.
MatchingRecords(u) == {i \in DOMAIN ldap : MatchesFilterParameter(u, ldap[i])}

\* C26: on the slow path every returned user is the user described by one
\* directory record that matches the lookup key of an input user, every
\* input user has such a returned user, and nothing of the input is kept.
C26_BuiltFromMatchedRecord ==
    (resolved # Idle /\ resolved.status = "ok" /\ SlowPath) =>
        /\ \A u \in users_arg : \E i \in MatchingRecords(u) :
              UserOf(ldap[i]) \in resolved.value
        /\ \A r \in resolved.value : \E u \in users_arg :
              \E i \in MatchingRecords(u) : r = UserOf(ldap[i])

\* Some input user has no record of the directory matching its lookup key,
\* while the combined search returned records.
MissingFromResult ==
    /\ SearchEntries(users_arg) # <<>>
    /\ \E u \in users_arg : MatchingRecords(u) = {}

\* C31: on the slow path a user with no matching record in a non-empty
\* search result is not dropped silently: no set is returned without a
\* record for that user, the call fails.
C31_NoSilentDrop ==
    (resolved # Idle /\ SlowPath /\ MissingFromResult) =>
        resolved.status = "raised"

-----------------------------------------------------------------------------
(* Claims about one run of the workflow (SpecRun)                          *)

\* The directory holds no record that any clause of the combined query for
\* users_arg selects.
ZeroRecords ==
    \A u \in users_arg : \A i \in DOMAIN ldap :
        IF u.email # None THEN ldap[i].mail # u.email
        ELSE IF u.launchpad_id # None THEN ldap[i].launchpadId # u.launchpad_id
        ELSE ldap[i].cn # u.name

\* C12: when the combined query of resolve_users was issued and returned no
\* record, the invocation raised (it returned no user set at all), the run
\* has failed and no grant call was started in it.
C12_ZeroRecordsFail ==
    (ldapOps = <<"bind", "search">> /\ ZeroRecords) =>
        /\ resolved.status = "raised"
        /\ pc = "failed"
        /\ tasks = <<>>
        /\ \A c \in addCalls : c.run # run

\* The query for a non-empty set of users found nothing and the run failed.
C12_Witness ==
    /\ ldapOps = <<"bind", "search">>
    /\ users_arg # {}
    /\ ZeroRecords
    /\ resolved = Raised("Exception")
    /\ pc = "failed"

\* What each stage has behind it: the configuration was found before the
\* extractor was invoked, the extractor has returned before the resolver is
\* invoked, and every resource is resolved before a grant call exists.
StageInv ==
    /\ pc \in {"idle", "extract", "resolve", "join", "completed", "failed",
               "cancelled"}
    /\ access_result # Idle => CloudConfigIndex(cloud) # 0
    /\ resolved # Idle => access_result.status = "ok"
    /\ pc \in {"resolve", "join", "completed"} => access_result.status = "ok"
    /\ (tasks # <<>> \/ pc \in {"join", "completed"}) =>
           /\ access_result.status = "ok"
           /\ resolveIdx = Len(resource_map)
    /\ pc \in {"idle", "extract"} => resolved = Idle /\ tasks = <<>>
    /\ pc = "idle" => access_result = Idle

\* The stage changes of a step: one stage forward, or to Failed / Cancelled.
StageStep ==
    pc' # pc =>
        \/ pc = "idle" /\ pc' \in {"extract", "failed"}
        \/ pc = "extract" /\ pc' \in {"resolve", "failed", "cancelled"}
        \/ pc = "resolve" /\ pc' \in {"join", "failed", "cancelled"}
        \/ pc = "join" /\ pc' \in {"completed", "failed", "cancelled"}

\* C13: the stages of a run occur only in the order LookupConfig,
\* ExtractRequirements, ReconcileUsers, GrantAccess, Completed; the extractor
\* has returned before any resolve_users invocation, and no stage is entered
\* again.
C13_StageOrder == []StageInv /\ [][StageStep]_vars

\* A run went through every stage, with both activities invoked and grant
\* calls made.
C13_Witness ==
    /\ pc = "completed"
    /\ access_result.status = "ok"
    /\ resolved.status = "ok"
    /\ Len(tasks) >= 2

\* No configured cloud entry has the requested cloud as its name.
UnknownCloud ==
    \A i \in DOMAIN conf.clouds : conf.sections[conf.clouds[i]].name # cloud

\* C14: a run for a cloud that no configured entry names fails without
\* having invoked an activity: no extraction, no resolve_users, no grant
\* call, no addMember.
C14_UnknownCloudFails ==
    (run > 0 /\ UnknownCloud) =>
        /\ pc = "failed"
        /\ access_result = Idle
        /\ resolved = Idle /\ ldapOps = <<>>
        /\ tasks = <<>>
        /\ \A c \in addCalls : c.run # run

\* A run was started for a cloud the configuration does not name.
C14_Witness ==
    /\ run = 1
    /\ UnknownCloud
    /\ conf.clouds # <<>>
    /\ pc = "failed"

\* The configured entry of the requested cloud.
RequestedCloud ==
    LET i == CHOOSE i \in DOMAIN conf.clouds :
                 conf.sections[conf.clouds[i]].name = cloud
    IN conf.sections[conf.clouds[i]]

\* The group the users of a resource belong in, by the resource's variant.
ExpectedGroup(resource) ==
    IF resource.kind = "InfraNode" THEN RequestedCloud.infra_group
    ELSE RequestedCloud.user_group

\* The grant calls have been started.
FannedOut == tasks # <<>> \/ pc \in {"join", "completed"}

\* C15: once the grant calls are started there is, for every group and user
\* set, exactly one call per resource with that non-empty user set whose
\* variant routes to that group (infra group for an InfraNode, user group
\* for an OpenStackProject), and no other call.
C15_Routing ==
    FannedOut =>
        /\ \A i \in DOMAIN resource_map :
              resource_map[i].users # {} =>
                 Cardinality({t \in DOMAIN tasks :
                                 /\ tasks[t].group = ExpectedGroup(resource_map[i].resource)
                                 /\ tasks[t].users = resource_map[i].users})
                 = Cardinality({k \in DOMAIN resource_map :
                                 /\ ExpectedGroup(resource_map[k].resource)
                                      = ExpectedGroup(resource_map[i].resource)
                                 /\ resource_map[k].users = resource_map[i].users})
        /\ Len(tasks) = Cardinality({i \in DOMAIN resource_map :
                                        resource_map[i].users # {}})

\* A run sent the infra node's users to the infra group and a project's
\* users to the user group.
C15_Witness ==
    /\ pc = "completed"
    /\ \E i, k \in DOMAIN resource_map :
          /\ resource_map[i].resource.kind = "InfraNode"
          /\ resource_map[k].resource.kind = "OpenStackProject"
          /\ \E t, u \in DOMAIN tasks :
                /\ tasks[t].group = RequestedCloud.infra_group
                /\ tasks[t].users = resource_map[i].users
                /\ tasks[u].group = RequestedCloud.user_group
                /\ tasks[u].users = resource_map[k].users
                /\ RequestedCloud.infra_group # RequestedCloud.user_group

\* The grant call has done something since it was started.
Progressed(t) == tasks[t] # NewTask(tasks[t].group, tasks[t].users)

InFlight(t) == tasks[t].status = "running"

\* C17: every grant call of the run exists before the run waits and before
\* any of them does anything, and the run is not Completed while one of its
\* grant calls is in flight.
C17_FanOutJoin ==
    /\ (pc = "join" \/ \E t \in DOMAIN tasks : Progressed(t)) =>
          /\ pc \in {"join", "completed", "cancelled"}
          /\ Len(tasks) = Cardinality({i \in DOMAIN resource_map :
                                          resource_map[i].users # {}})
    /\ pc = "completed" => \A t \in DOMAIN tasks : ~InFlight(t)

\* Two grant calls are in flight at once, each in the middle of its batch,
\* while the run waits.
C17_Witness ==
    /\ pc = "join"
    /\ \E t, u \in DOMAIN tasks :
          /\ t # u
          /\ InFlight(t) /\ Progressed(t)
          /\ InFlight(u) /\ Progressed(u)

\* C18: once the run is cancelled, its grant calls are cancelled with it: no
\* grant call of the run goes on to check a user or to call addMember, and
\* no grant call is started.
C18_CancelPropagates ==
    [][pc = "cancelled" => (addCalls' = addCalls /\ tasks' = tasks)]_vars

\* The users the extractor returned for the i-th resource of the map.
ExtractedUsers(i) == to_map(access_result.value)[i].users

\* What resolve_users makes of those users when the directory answers.
ReconciledUsers(i) == resolve_users(ExtractedUsers(i), FALSE).value

\* C24: no grant call is started before the user set of every resource of
\* the map has been resolved, and every grant call started carries the
\* resolved user set of its resource.
C24_GrantAfterReconcile ==
    tasks # <<>> =>
        /\ resolveIdx = Len(resource_map)
        /\ \A t \in DOMAIN tasks : \E i \in DOMAIN resource_map :
              /\ tasks[t].group = GroupFor(resource_map[i].resource)
              /\ tasks[t].users = resource_map[i].users
              /\ tasks[t].users = ReconciledUsers(i)

\* Grant calls were started for two resources, and the directory had changed
\* the users of one of them.
C24_Witness ==
    /\ Len(tasks) >= 2
    /\ Len(resource_map) >= 2
    /\ \E i \in DOMAIN resource_map : resource_map[i].users # ExtractedUsers(i)

\* The resources of a map, in the order of the map.
ResourceKeys(m) == [i \in DOMAIN m |-> m[i].resource]

\* C27: a step of the resolve stage leaves the resources of the map as they
\* are and changes the user set of no resource but the one being resolved.
C27_ResolveFrame ==
    [][pc = "resolve" =>
          /\ ResourceKeys(resource_map') = ResourceKeys(resource_map)
          /\ \A i \in DOMAIN resource_map :
                i # resolveIdx + 1 => resource_map'[i].users = resource_map[i].users]_vars

\* The first of two resources has been resolved, and its users changed; the
\* second still has the users the extractor returned.
C27_Witness ==
    /\ pc = "resolve"
    /\ Len(resource_map) >= 2
    /\ resolveIdx = 1
    /\ resource_map[1].users # ExtractedUsers(1)
    /\ resource_map[2].users = ExtractedUsers(2)
    /\ ExtractedUsers(2) # ReconciledUsers(2)

\* C28: within one run addMember is called at most once for a group and a
\* user, whatever the interleaving of the grant calls of the run.
C28_AtMostOneAdd ==
    \A a, b \in addCalls :
        (a.run = b.run /\ a.group = b.group /\ a.user = b.user) => a = b

\* The extractor, or resolve_users for some resource, raised in this run.
FailedBeforeGrant ==
    access_result.status = "raised" \/ resolved.status = "raised"

\* C29: when the extractor or a call of resolve_users fails, the run fails,
\* no grant call is started in it, and no membership changes.
C29_NoGrantAfterFailure ==
    /\ [](FailedBeforeGrant =>
             pc = "failed" /\ tasks = <<>> /\ addCalls = {} /\ result = <<>>)
    /\ [][FailedBeforeGrant => lp' = lp /\ tasks' = <<>>]_vars

\* resolve_users raised for the second resource, after the users of the
\* first had been resolved.
C29_Witness ==
    /\ resolved.status = "raised"
    /\ resolveIdx >= 1
    /\ Len(resource_map) >= 2
    /\ resource_map[1].users # ExtractedUsers(1)
    /\ pc = "failed"

\* C32: when run() found the configuration of the cloud, the extractor's
\* own lookup CONF.get(cloud) succeeds, gives the same section, and the
\* infra node of the result has the address of that section.
C32_ExtractorUsesSelectedConfig ==
    (access_result # Idle /\ CloudConfigIndex(cloud) # 0) =>
        /\ ConfGet(cloud_config.name) = Ok(cloud_config)
        /\ access_result.status = "raised" =>
              access_result.error # "NoSuchOptError"
        /\ access_result.status = "ok" =>
              \A i \in DOMAIN access_result.value.resources :
                  access_result.value.resources[i].kind = "InfraNode" =>
                      access_result.value.resources[i].ip_address
                          = cloud_config.infra_node

\* The resources of the extractor's result whose resolved user set is not
\* empty, in the order of the result.
GrantedResources ==
    SelectSeq([i \in DOMAIN access_result.value.resources |-> i],
              LAMBDA i : ReconciledUsers(i) # {})

\* The grant calls that the configuration, the extractor's result and the
\* directory's answers determine: group and users, in order.
ExpectedGrantCalls ==
    [k \in DOMAIN GrantedResources |->
        <<ExpectedGroup(access_result.value.resources[GrantedResources[k]]),
          ReconciledUsers(GrantedResources[k])>>]

\* The resource the last call of resolve_users was made for.
LastResolved ==
    IF resolved.status = "ok" THEN resolveIdx ELSE resolveIdx + 1

\* C34: the activity invocations of a run and its result are a function of
\* the input, the configuration and the results of the activities before:
\* resolve_users is called for the resources in the order of the extractor's
\* result with the users that result holds, the grant calls are the expected
\* ones in that same order, and a completed run returns (0, 0).
C34_Deterministic ==
    /\ resolved # Idle => users_arg = ExtractedUsers(LastResolved)
    /\ tasks # <<>> =>
          [t \in DOMAIN tasks |-> <<tasks[t].group, tasks[t].users>>]
              = ExpectedGrantCalls
    /\ pc = "completed" => result = <<0, 0>>

\* A completed run that made grant calls for different groups and users.
C34_Witness ==
    /\ pc = "completed"
    /\ \E t, u \in DOMAIN tasks :
          tasks[t].group # tasks[u].group /\ tasks[t].users # tasks[u].users
    /\ resolved.status = "ok"

-----------------------------------------------------------------------------
(* Claims about termination (SpecLive)                                     *)

\* C35: every run ends completed or failed; the join of the grant calls
\* does not wait forever, also when no grant call was started.
C35_Terminates == <>(pc \in {"completed", "failed"})

\* A run completed without a grant call: the extractor returned resources
\* and none of them had users after the resolve stage, or it returned none.
C35_Witness ==
    /\ pc = "completed"
    /\ access_result.status = "ok"
    /\ tasks = <<>>
    /\ result = <<0, 0>>

-----------------------------------------------------------------------------
(* Claims about the resource map through AccessResult (SpecMap)            *)

-----------------------------------------------------------------------------
(* Claims about routing with empty user sets (SpecRoute)                   *)

EveryUserSetEmpty == \A i \in DOMAIN resource_map : resource_map[i].users = {}

\* C16: no grant call is ever started for an empty user set, there are
\* exactly as many calls as resources with users, and a run in which every
\* resource has an empty user set does not fail, queries no directory and
\* makes no grant call and no addMember.
C16_EmptySkipped ==
    /\ FannedOut =>
          /\ \A t \in DOMAIN tasks : tasks[t].users # {}
          /\ Len(tasks) = Cardinality({i \in DOMAIN resource_map :
                                          resource_map[i].users # {}})
    /\ EveryUserSetEmpty =>
          /\ pc # "failed"
          /\ ldapOps = <<>>
          /\ tasks = <<>>
          /\ addCalls = {}

\* A run with two resources, both without users, has completed.
C16_Witness ==
    /\ pc = "completed"
    /\ Len(resource_map) = 2
    /\ EveryUserSetEmpty
    /\ resolved = Ok({})
    /\ tasks = <<>>

====
